---- MODULE Spec2Model ----
(***************************************************************************)
(* Model of the dslink SDK core: the connection lifecycle of               *)
(* dslink/Connection.py (connect loop with linear backoff, close callback, *)
(* keepalive task) and the node-tree persistence of dslink/DSLink.py       *)
(* (load_nodes with backup recovery, save_nodes with rotation).            *)
(*                                                                         *)
(* The connection tasks run on one asyncio event loop: a task only gives   *)
(* up control at an await, so every action below is the code between two   *)
(* awaits of one task.                                                     *)
(***************************************************************************)
EXTENDS Integers, Sequences, FiniteSets, TLC

\* ------------------------------------------------------------------ bounds
MaxPings == 3      \* keepalive tasks created in one behaviour
MaxFails == 62     \* consecutive failed attempts followed in one behaviour
MaxExtra == 1      \* connect loops running beside the one of pc
MaxCloseFails == 2 \* failed attempts followed before and while two connect loops run
MaxData == 2       \* values the persisted "data" node takes
MaxNodes == 2      \* nodes the registries refer to
MaxIds == 2        \* subscription ids (sids) and request ids (rids)
MaxStreams == 3    \* length of a node's stream list

\* ------------------------------------------------------- program constants
DelayCap == 60     \* Connection.py:22
None == 0          \* Connection.py:17, ping_task = None

VARIABLES
  \* ---- Connection.py
  delay,        \* self.delay
  ping_task,    \* self.ping_task: id of the last created keepalive task
  pc,           \* position of the connect loop
  hs_res,       \* local hs_res of connect(): "unset", "true", "false"
  ws_res,       \* local ws_res of connect(): "unset", "true", "false"
  websocket,    \* state of the transport: "reset", "open", "closed"
  pings,        \* position of every keepalive task
  must_cancel,  \* keepalive tasks with a cancellation requested, not delivered
  \* ---- history of the connect loop
  fails,        \* failed attempts since start or since the last success
  slept,        \* seconds slept after the last failed attempt, 0 if it did not sleep
  fresh,        \* a handshake succeeded within the attempt in progress
  \* ---- close callbacks that arrive while a connect loop is running
  extra,        \* position of every further connect loop, "none": not running
  close_raised  \* an on_close call raised to the transport

VARIABLES
  \* ---- DSLink.py
  link,          \* the process: "down", "running", "failed"
  super_root,    \* self.super_root, the node tree in memory
  nodes_changed, \* self.nodes_changed, the dirty flag
  primary,       \* the file at config.nodes_path
  bak,           \* the file at config.nodes_path + ".bak"
  save_pc,       \* position inside save_nodes: "idle", "l119", "l121", "l122", "l123"
  \* ---- history of the persistence operations
  lastOp,        \* the last operation: "none", "load", "mutate", "saving",
                 \* "save_clean", "save_dirty", "kill"
  pre,           \* the two files when the last load or dirty save started
  loaded,        \* what the last load_nodes returned
  lastWritten,   \* the primary right after the last completed checkpoint
  prevWritten,   \* the primary right after the checkpoint before that one
  ckpts,         \* checkpoints completed since the process started, up to 2
  killedIn,      \* save_pc at the last kill
  writing,       \* the serialization being written at the last kill
  \* ---- the checkpoint timer and the file handles
  no_save_nodes, \* config.no_save_nodes
  timer,         \* the save_timer call: "off", "armed", "dead"
  handles        \* files opened by load_nodes or save_nodes and still open

connVars == <<delay, ping_task, pc, hs_res, ws_res, websocket, pings,
              must_cancel, fails, slept, fresh, extra, close_raised>>

closeVars == <<extra, close_raised>>

storeVars == <<link, super_root, nodes_changed, primary, bak, save_pc,
               lastOp, pre, loaded, lastWritten, prevWritten, ckpts,
               killedIn, writing, no_save_nodes, timer, handles>>

timerVars == <<no_save_nodes, timer, handles>>

VARIABLES
  \* ---- DSLink.py, LocalSubscriptionManager and StreamManager
  manager,       \* the manager a behaviour works on: "subscriptions", "streams"
  subscriptions, \* LocalSubscriptionManager.subscriptions: sid -> node, 0: no key
  subscribers,   \* per node, the sids recorded by add_subscriber
  streams,       \* StreamManager.streams: rid -> node, 0: no key
  node_streams,  \* per node, its list node.streams
  reg_raised,    \* an operation of a manager raised to its caller
  \* ---- history of the managers
  lastReg,       \* the last operation, its node and id, and the node the id
                 \* was mapped to before it
  dup_opened     \* some open was called with an id that was mapped

regVars == <<manager, subscriptions, subscribers, streams, node_streams,
             reg_raised, lastReg, dup_opened>>

vars == <<connVars, storeVars, regVars>>

PingIds == 1..MaxPings
LoopPcs == {"top", "ws", "sleep"}
LivePing == {"created", "sending", "sleeping"}
Extras == 1..MaxExtra

\* the number of consecutive failed attempts followed from the current state
FailCap ==
  IF \A e \in Extras : extra[e] = "none" THEN MaxFails ELSE MaxCloseFails

\* a task is running between two awaits: no other task or callback can step
Busy == pc = "top" \/ \E e \in Extras : extra[e] = "top"

Min(a, b) == IF a < b THEN a ELSE b

\* Connection.py:22-23
Bump(d) == IF d < DelayCap THEN d + 1 ELSE d

\* ids of keepalive tasks not yet created
FreeIds == {t \in PingIds : pings[t] = "none"}
NewId == CHOOSE t \in FreeIds : \A u \in FreeIds : t <= u

\* Connection.__init__
InitConn ==
  /\ delay = 0
  /\ ping_task = None
  /\ pc = "idle"
  /\ hs_res = "unset"
  /\ ws_res = "unset"
  /\ websocket = "reset"
  /\ pings = [t \in PingIds |-> "none"]
  /\ must_cancel = [t \in PingIds |-> FALSE]
  /\ fails = 0
  /\ slept = 0
  /\ fresh = FALSE
  /\ extra = [e \in Extras |-> "none"]
  /\ close_raised = FALSE

\* the orchestrator calls connect(): the coroutine reaches the loop top
Connect ==
  /\ pc = "idle"
  /\ pc' = "top"
  /\ UNCHANGED closeVars
  /\ UNCHANGED storeVars
  /\ UNCHANGED regVars
  /\ UNCHANGED <<delay, ping_task, hs_res, ws_res, websocket, pings,
                 must_cancel, fails, slept, fresh>>

\* an attempt that keeps the handshake result of an earlier attempt
HandshakeReused ==
  /\ pc = "top"
  /\ delay' = Bump(delay)
  /\ hs_res' = "true"
  /\ fresh' = (hs_res # "true")
  /\ pc' = "ws"
  /\ UNCHANGED closeVars
  /\ UNCHANGED storeVars
  /\ UNCHANGED regVars
  /\ UNCHANGED <<ping_task, ws_res, websocket, pings, must_cancel, fails, slept>>

\* lines 22-27: the handshake returns true, websocket.connect is awaited
HandshakeTrue ==
  /\ pc = "top"
  /\ delay' = Bump(delay)
  /\ hs_res' = "true"
  /\ fresh' = TRUE
  /\ pc' = "ws"
  /\ UNCHANGED closeVars
  /\ UNCHANGED storeVars
  /\ UNCHANGED regVars
  /\ UNCHANGED <<ping_task, ws_res, websocket, pings, must_cancel, fails, slept>>

\* lines 22-26, 32-33: the handshake returns false, warn and sleep(self.delay)
HandshakeFalse ==
  /\ pc = "top"
  /\ fails < FailCap
  /\ delay' = Bump(delay)
  /\ hs_res' = "false"
  /\ fresh' = FALSE
  /\ fails' = fails + 1
  /\ slept' = delay'
  /\ pc' = "sleep"
  /\ UNCHANGED closeVars
  /\ UNCHANGED storeVars
  /\ UNCHANGED regVars
  /\ UNCHANGED <<ping_task, ws_res, websocket, pings, must_cancel>>

\* lines 22-25, 34-35: the handshake raises, the handler logs and the loop
\* goes round with no await in between
HandshakeRaises ==
  /\ pc = "top"
  /\ fails < FailCap
  /\ delay' = Bump(delay)
  /\ fresh' = FALSE
  /\ fails' = fails + 1
  /\ slept' = 0
  /\ pc' = "top"
  /\ UNCHANGED closeVars
  /\ UNCHANGED storeVars
  /\ UNCHANGED regVars
  /\ UNCHANGED <<ping_task, hs_res, ws_res, websocket, pings, must_cancel>>

\* lines 27-30, 36-37: websocket.connect returns true: the keepalive task is
\* created, the loop is left, delay is reset and connect() returns
WsConnectTrue ==
  /\ pc = "ws"
  /\ ~Busy
  /\ FreeIds # {}
  /\ ws_res' = "true"
  /\ ping_task' = NewId
  /\ pings' = [pings EXCEPT ![NewId] = "created"]
  /\ websocket' = "open"
  /\ delay' = 0
  /\ fails' = 0
  /\ slept' = 0
  /\ pc' = "connected"
  /\ UNCHANGED closeVars
  /\ UNCHANGED storeVars
  /\ UNCHANGED regVars
  /\ UNCHANGED <<hs_res, must_cancel, fresh>>

\* a connect loop that leaves on a failed transport connect
WsConnectFalseReturns ==
  /\ pc = "ws"
  /\ ~Busy
  /\ fails < FailCap
  /\ ws_res' = "false"
  /\ delay' = 0
  /\ fails' = fails + 1
  /\ slept' = 0
  /\ pc' = "connected"
  /\ UNCHANGED closeVars
  /\ UNCHANGED storeVars
  /\ UNCHANGED regVars
  /\ UNCHANGED <<ping_task, hs_res, websocket, pings, must_cancel, fresh>>

\* lines 27-28, 32-33: websocket.connect returns false, warn and sleep
WsConnectFalse ==
  /\ pc = "ws"
  /\ ~Busy
  /\ fails < FailCap
  /\ ws_res' = "false"
  /\ fresh' = FALSE
  /\ fails' = fails + 1
  /\ slept' = delay
  /\ pc' = "sleep"
  /\ UNCHANGED closeVars
  /\ UNCHANGED storeVars
  /\ UNCHANGED regVars
  /\ UNCHANGED <<delay, ping_task, hs_res, websocket, pings, must_cancel>>

\* lines 27, 34-35: websocket.connect (or get_ws_uri) raises
WsConnectRaises ==
  /\ pc = "ws"
  /\ ~Busy
  /\ fails < FailCap
  /\ fresh' = FALSE
  /\ fails' = fails + 1
  /\ slept' = 0
  /\ pc' = "top"
  /\ UNCHANGED closeVars
  /\ UNCHANGED storeVars
  /\ UNCHANGED regVars
  /\ UNCHANGED <<delay, ping_task, hs_res, ws_res, websocket, pings, must_cancel>>

\* line 33: asyncio.sleep(self.delay) is over, back to the loop top
SleepDone ==
  /\ pc = "sleep"
  /\ ~Busy
  /\ pc' = "top"
  /\ UNCHANGED closeVars
  /\ UNCHANGED storeVars
  /\ UNCHANGED regVars
  /\ UNCHANGED <<delay, ping_task, hs_res, ws_res, websocket, pings,
                 must_cancel, fails, slept, fresh>>

\* the open transport is lost; it will signal its close callback
TransportClose ==
  /\ websocket = "open"
  /\ websocket' = "closed"
  /\ UNCHANGED closeVars
  /\ UNCHANGED storeVars
  /\ UNCHANGED regVars
  /\ UNCHANGED <<delay, ping_task, pc, hs_res, ws_res, pings, must_cancel,
                 fails, slept, fresh>>

\* Task.cancel(): a request on a task that is not finished
Cancel(mc, t) == IF pings[t] \in LivePing THEN [mc EXCEPT ![t] = TRUE] ELSE mc

\* a close callback that reconnects without canceling the keepalive task
OnCloseNoCancel ==
  /\ websocket = "closed"
  /\ pc = "connected"
  /\ ~Busy
  /\ websocket' = "reset"
  /\ fresh' = FALSE
  /\ pc' = "top"
  /\ UNCHANGED closeVars
  /\ UNCHANGED storeVars
  /\ UNCHANGED regVars
  /\ UNCHANGED <<delay, ping_task, hs_res, ws_res, pings, must_cancel, fails, slept>>

\* lines 48-51 and 39-41: on_close cancels the keepalive task, reconnect()
\* resets the transport and enters connect()
OnClose ==
  /\ websocket = "closed"
  /\ pc = "connected"
  /\ ~Busy
  /\ must_cancel' = Cancel(must_cancel, ping_task)
  /\ websocket' = "reset"
  /\ fresh' = FALSE
  /\ pc' = "top"
  /\ UNCHANGED closeVars
  /\ UNCHANGED storeVars
  /\ UNCHANGED regVars
  /\ UNCHANGED <<delay, ping_task, hs_res, ws_res, pings, fails, slept>>

\* lines 55-57: the keepalive task starts a send (first step, or sleep(30) over)
PingSend(t) ==
  /\ ~Busy
  /\ pings[t] \in {"created", "sleeping"}
  /\ ~must_cancel[t]
  /\ pings' = [pings EXCEPT ![t] = "sending"]
  /\ UNCHANGED closeVars
  /\ UNCHANGED storeVars
  /\ UNCHANGED regVars
  /\ UNCHANGED <<delay, ping_task, pc, hs_res, ws_res, websocket, must_cancel,
                 fails, slept, fresh>>

\* lines 57-58: the send is over, the keepalive task sleeps 30 seconds
PingSent(t) ==
  /\ ~Busy
  /\ pings[t] = "sending"
  /\ ~must_cancel[t]
  /\ pings' = [pings EXCEPT ![t] = "sleeping"]
  /\ UNCHANGED closeVars
  /\ UNCHANGED storeVars
  /\ UNCHANGED regVars
  /\ UNCHANGED <<delay, ping_task, pc, hs_res, ws_res, websocket, must_cancel,
                 fails, slept, fresh>>

\* CancelledError is thrown into the keepalive task at its await (or before
\* its first step); ping() has no handler, the task ends
PingCancelled(t) ==
  /\ ~Busy
  /\ pings[t] \in LivePing
  /\ must_cancel[t]
  /\ pings' = [pings EXCEPT ![t] = "done"]
  /\ must_cancel' = [must_cancel EXCEPT ![t] = FALSE]
  /\ UNCHANGED closeVars
  /\ UNCHANGED storeVars
  /\ UNCHANGED regVars
  /\ UNCHANGED <<delay, ping_task, pc, hs_res, ws_res, websocket, fails, slept, fresh>>

NextConn ==
  \/ Connect
  \/ HandshakeTrue
  \/ HandshakeFalse
  \/ HandshakeRaises
  \/ WsConnectTrue
  \/ WsConnectFalse
  \/ WsConnectRaises
  \/ SleepDone
  \/ TransportClose
  \/ OnClose
  \/ \E t \in PingIds : PingSend(t)
  \/ \E t \in PingIds : PingSent(t)
  \/ \E t \in PingIds : PingCancelled(t)


\* ---- close callbacks at any time: the transport may signal a close while
\* ---- a connect loop is running

\* lines 48-50: on_close before any keepalive task exists: ping_task is None
\* and ping_task.cancel() raises AttributeError out of on_close
OnCloseEarly ==
  /\ ~Busy
  /\ pc \in LoopPcs
  /\ ping_task = None
  /\ close_raised' = TRUE
  /\ UNCHANGED <<delay, ping_task, pc, hs_res, ws_res, websocket, pings,
                 must_cancel, fails, slept, fresh, extra>>
  /\ UNCHANGED storeVars
  /\ UNCHANGED regVars

FreeExtras == {e \in Extras : extra[e] = "none"}

\* lines 48-51, 39-41: on_close while a connect loop is running: the cancel is
\* requested again, the transport is reset and a further connect loop starts
OnCloseReentrant(e) ==
  /\ ~Busy
  /\ fails < MaxCloseFails
  /\ pc \in LoopPcs
  /\ ping_task # None
  /\ websocket # "open"
  /\ e \in FreeExtras /\ \A u \in FreeExtras : e <= u
  /\ must_cancel' = Cancel(must_cancel, ping_task)
  /\ websocket' = "reset"
  /\ extra' = [extra EXCEPT ![e] = "top"]
  /\ UNCHANGED <<delay, ping_task, pc, hs_res, ws_res, pings, fails, slept,
                 fresh, close_raised>>
  /\ UNCHANGED storeVars
  /\ UNCHANGED regVars

\* lines 22-35 in a further loop: the handshake returns true ("true"), returns
\* false ("false") or raises ("raises")
ExtraHandshake(e, r) ==
  /\ extra[e] = "top"
  /\ r # "true" => fails < FailCap
  /\ delay' = Bump(delay)
  /\ fails' = IF r = "true" THEN fails ELSE fails + 1
  /\ extra' = [extra EXCEPT ![e] = CASE r = "true" -> "ws"
                                     [] r = "false" -> "sleep"
                                     [] OTHER -> "top"]
  /\ UNCHANGED <<ping_task, pc, hs_res, ws_res, websocket, pings, must_cancel,
                 slept, fresh, close_raised>>
  /\ UNCHANGED storeVars
  /\ UNCHANGED regVars

\* lines 27-37 in a further loop: websocket.connect returns true: a keepalive
\* task is created, ping_task is overwritten, delay is reset, connect() returns
ExtraWsConnectTrue(e) ==
  /\ ~Busy
  /\ extra[e] = "ws"
  /\ FreeIds # {}
  /\ ping_task' = NewId
  /\ pings' = [pings EXCEPT ![NewId] = "created"]
  /\ websocket' = "open"
  /\ delay' = 0
  /\ fails' = 0
  /\ extra' = [extra EXCEPT ![e] = "none"]
  /\ UNCHANGED <<pc, hs_res, ws_res, must_cancel, slept, fresh, close_raised>>
  /\ UNCHANGED storeVars
  /\ UNCHANGED regVars

\* lines 27-35 in a further loop: websocket.connect returns false or raises
ExtraWsConnectFails(e, r) ==
  /\ ~Busy
  /\ extra[e] = "ws"
  /\ fails < FailCap
  /\ fails' = fails + 1
  /\ extra' = [extra EXCEPT ![e] = IF r = "false" THEN "sleep" ELSE "top"]
  /\ UNCHANGED <<delay, ping_task, pc, hs_res, ws_res, websocket, pings,
                 must_cancel, slept, fresh, close_raised>>
  /\ UNCHANGED storeVars
  /\ UNCHANGED regVars

\* line 33 in a further loop: the sleep is over
ExtraSleepDone(e) ==
  /\ ~Busy
  /\ extra[e] = "sleep"
  /\ extra' = [extra EXCEPT ![e] = "top"]
  /\ UNCHANGED <<delay, ping_task, pc, hs_res, ws_res, websocket, pings,
                 must_cancel, fails, slept, fresh, close_raised>>
  /\ UNCHANGED storeVars
  /\ UNCHANGED regVars

NextClose ==
  \/ NextConn
  \/ OnCloseEarly
  \/ \E e \in Extras : OnCloseReentrant(e)
  \/ \E e \in Extras, r \in {"true", "false", "raises"} : ExtraHandshake(e, r)
  \/ \E e \in Extras : ExtraWsConnectTrue(e)
  \/ \E e \in Extras, r \in {"false", "raises"} : ExtraWsConnectFails(e, r)
  \/ \E e \in Extras : ExtraSleepDone(e)


\* ---------------------------------------------------------------- DSLink.py

Data == 0..MaxData

\* a node tree: the value of the "data" child (0: no such child) and whether
\* the transient "defs" child is installed
Tree(d, t) == [data |-> d, defs |-> t]

\* file contents; json is the stored object when the file parses
Missing == [st |-> "missing", json |-> 0]
Corrupt == [st |-> "corrupt", json |-> 0]
Unreadable == [st |-> "unreadable", json |-> 0]
Truncated == [st |-> "empty", json |-> 0]
Partial(j) == [st |-> "partial", json |-> j]
Valid(j) == [st |-> "valid", json |-> j]

Files == {Missing, Corrupt, Unreadable} \cup {Valid(j) : j \in Data}

\* os.path.exists
Exists(f) == f.st # "missing"

\* open(path, "r"), json.load and Node.from_json all succeed
Parses(f) == f.st = "valid"

\* Node.to_json: the transient "defs" subtree is left out
ToJson(t) == t.data

\* Node.from_json
FromJson(j) == Tree(j, FALSE)

\* lines 137-152: get_default_nodes, the root node alone
DefaultNodes == Tree(0, FALSE)

\* lines 154-159: create_defs installs the transient "defs" child
CreateDefs(t) == [t EXCEPT !.defs = TRUE]

\* open(path, "r") succeeds
Opens(f) == f.st \notin {"missing", "unreadable"}

\* lines 79-81 and 91-93: a file that opens and then fails to parse is not
\* closed, close() is skipped by the exception
LoadLeaks(p, b) ==
  IF Exists(p) /\ ~Parses(p)
  THEN (IF Opens(p) THEN 1 ELSE 0)
       + (IF Exists(b) /\ Opens(b) /\ ~Parses(b) THEN 1 ELSE 0)
  ELSE 0

Result(r, t, p, b) == [raised |-> r, ret |-> t, primary |-> p, bak |-> b]

\* a load that reads the backup where it is
LoadNodesInPlace(p, b) ==
  IF Exists(p)
  THEN IF Parses(p)
       THEN Result(FALSE, FromJson(p.json), p, b)
       ELSE IF Exists(b)
            THEN IF Parses(b)
                 THEN Result(FALSE, FromJson(b.json), p, b)
                 ELSE Result(FALSE, DefaultNodes, p, b)
            ELSE Result(FALSE, DefaultNodes, p, b)
  ELSE Result(FALSE, DefaultNodes, p, b)

\* a load whose restore of the backup has no handler of its own
LoadNodesNoInnerTry(p, b) ==
  IF Exists(p)
  THEN IF Parses(p)
       THEN Result(FALSE, FromJson(p.json), p, b)
       ELSE IF Exists(b)
            THEN IF Parses(b)
                 THEN Result(FALSE, FromJson(b.json), b, Missing)
                 ELSE Result(TRUE, DefaultNodes, b, Missing)
            ELSE Result(FALSE, DefaultNodes, p, b)
  ELSE Result(FALSE, DefaultNodes, p, b)

\* lines 73-102: load_nodes on primary p and backup b: what it returns and
\* what it leaves on disk
LoadNodes(p, b) ==
  IF Exists(p)
  THEN IF Parses(p)
       THEN Result(FALSE, FromJson(p.json), p, b)
       ELSE IF Exists(b)
            \* lines 89-90: remove the primary, rename the backup to it
            THEN IF Parses(b)
                 THEN Result(FALSE, FromJson(b.json), b, Missing)
                 ELSE Result(FALSE, DefaultNodes, b, Missing)
            ELSE Result(FALSE, DefaultNodes, p, b)
  ELSE Result(FALSE, DefaultNodes, p, b)

\* no process yet, any files at the two paths
InitStore ==
  /\ link = "down"
  /\ super_root = DefaultNodes
  /\ nodes_changed = FALSE
  /\ primary \in Files
  /\ bak \in Files
  /\ save_pc = "idle"
  /\ lastOp = "none"
  /\ pre = [primary |-> Missing, bak |-> Missing]
  /\ loaded = DefaultNodes
  /\ lastWritten = Missing
  /\ prevWritten = Missing
  /\ ckpts = 0
  /\ killedIn = "idle"
  /\ writing = 0
  /\ no_save_nodes \in BOOLEAN
  /\ timer = "off"
  /\ handles = 0

StoreAtRest ==
  InitStore /\ primary = Missing /\ bak = Missing /\ no_save_nodes = FALSE

\* lines 29-43: DSLink.__init__ clears the flag, loads the tree and installs
\* the "defs" child
Start ==
  /\ link = "down"
  /\ LET r == LoadNodes(primary, bak) IN
       /\ link' = IF r.raised THEN "failed" ELSE "running"
       /\ super_root' = IF r.raised THEN DefaultNodes ELSE CreateDefs(r.ret)
       /\ loaded' = r.ret
       /\ primary' = r.primary
       /\ bak' = r.bak
  /\ nodes_changed' = FALSE
  /\ pre' = [primary |-> primary, bak |-> bak]
  /\ lastOp' = "load"
  /\ ckpts' = 0
  \* lines 63-64: the timer is started unless persistence is disabled
  /\ timer' = IF no_save_nodes \/ LoadNodes(primary, bak).raised
              THEN "off" ELSE "armed"
  \* an unclosed file stays open until the collector finds it
  /\ handles' \in 0..LoadLeaks(primary, bak)
  /\ UNCHANGED <<save_pc, lastWritten, prevWritten, killedIn, writing,
                 no_save_nodes>>
  /\ UNCHANGED connVars
  /\ UNCHANGED regVars

\* a value-set frame changes the tree and sets the dirty flag
Mutate(d) ==
  /\ link = "running"
  /\ save_pc = "idle"
  /\ d # super_root.data
  /\ super_root' = [super_root EXCEPT !.data = d]
  /\ nodes_changed' = TRUE
  /\ lastOp' = "mutate"
  /\ UNCHANGED <<link, primary, bak, save_pc, pre, loaded, lastWritten,
                 prevWritten, ckpts, killedIn, writing>>
  /\ UNCHANGED timerVars
  /\ UNCHANGED connVars
  /\ UNCHANGED regVars

\* a save that rotates whatever the dirty flag says
SaveBeginUnguarded ==
  /\ link = "running"
  /\ timer = "armed"
  /\ save_pc = "idle"
  /\ lastOp' = IF nodes_changed THEN "saving" ELSE "save_clean"
  /\ bak' = Missing
  /\ pre' = [primary |-> primary, bak |-> bak]
  /\ save_pc' = "l119"
  /\ UNCHANGED <<link, super_root, nodes_changed, primary, loaded,
                 lastWritten, prevWritten, ckpts, killedIn, writing>>
  /\ UNCHANGED timerVars
  /\ UNCHANGED connVars
  /\ UNCHANGED regVars

\* lines 104-108, 116-118: the timer calls save_nodes; with the flag clear it
\* returns, with the flag set it removes the backup if there is one
SaveBegin ==
  /\ link = "running"
  /\ timer = "armed"
  /\ save_pc = "idle"
  /\ lastOp' = IF nodes_changed THEN "saving" ELSE "save_clean"
  /\ IF nodes_changed
     THEN /\ bak' = Missing
          /\ pre' = [primary |-> primary, bak |-> bak]
          /\ save_pc' = "l119"
     ELSE UNCHANGED <<bak, pre, save_pc>>
  /\ UNCHANGED <<link, super_root, nodes_changed, primary, loaded,
                 lastWritten, prevWritten, ckpts, killedIn, writing>>
  /\ UNCHANGED timerVars
  /\ UNCHANGED connVars
  /\ UNCHANGED regVars

\* a save that keeps the old backup
SaveRenameSkipped ==
  /\ save_pc = "l119"
  /\ save_pc' = "l121"
  /\ UNCHANGED <<link, super_root, nodes_changed, primary, bak, lastOp, pre,
                 loaded, lastWritten, prevWritten, ckpts, killedIn, writing>>
  /\ UNCHANGED timerVars
  /\ UNCHANGED connVars
  /\ UNCHANGED regVars

\* a save that removes the old primary
SaveRenameDeletes ==
  /\ save_pc = "l119"
  /\ primary' = Missing
  /\ save_pc' = "l121"
  /\ UNCHANGED <<link, super_root, nodes_changed, bak, lastOp, pre, loaded,
                 lastWritten, prevWritten, ckpts, killedIn, writing>>
  /\ UNCHANGED timerVars
  /\ UNCHANGED connVars
  /\ UNCHANGED regVars

\* lines 119-120: the primary, if there is one, is renamed to the backup
SaveRename ==
  /\ save_pc = "l119"
  /\ IF Exists(primary)
     THEN primary' = Missing /\ bak' = primary
     ELSE UNCHANGED <<primary, bak>>
  /\ save_pc' = "l121"
  /\ UNCHANGED <<link, super_root, nodes_changed, lastOp, pre, loaded,
                 lastWritten, prevWritten, ckpts, killedIn, writing>>
  /\ UNCHANGED timerVars
  /\ UNCHANGED connVars
  /\ UNCHANGED regVars

\* a save that clears the dirty flag before it writes
SaveOpenClearsFlag ==
  /\ save_pc = "l121"
  /\ primary' = Truncated
  /\ nodes_changed' = FALSE
  /\ save_pc' = "l122"
  /\ UNCHANGED <<link, super_root, bak, lastOp, pre, loaded,
                 lastWritten, prevWritten, ckpts, killedIn, writing>>
  /\ UNCHANGED timerVars
  /\ UNCHANGED connVars
  /\ UNCHANGED regVars

\* line 121: open(nodes_path, "w") creates an empty primary
SaveOpen ==
  /\ save_pc = "l121"
  /\ primary' = Truncated
  /\ save_pc' = "l122"
  /\ UNCHANGED <<link, super_root, nodes_changed, bak, lastOp, pre, loaded,
                 lastWritten, prevWritten, ckpts, killedIn, writing>>
  /\ UNCHANGED timerVars
  /\ UNCHANGED connVars
  /\ UNCHANGED regVars

\* line 122: the write is under way, a part of the text is in the file
SaveWritePart ==
  /\ save_pc = "l122"
  /\ primary' = Partial(ToJson(super_root))
  /\ save_pc' = "l123"
  /\ UNCHANGED <<link, super_root, nodes_changed, bak, lastOp, pre, loaded,
                 lastWritten, prevWritten, ckpts, killedIn, writing>>
  /\ UNCHANGED timerVars
  /\ UNCHANGED connVars
  /\ UNCHANGED regVars

\* lines 122-126: the write is complete, flushed and synced, the file is
\* closed and the dirty flag cleared
SaveFinish ==
  /\ save_pc = "l123"
  /\ primary' = Valid(ToJson(super_root))
  /\ nodes_changed' = FALSE
  /\ save_pc' = "idle"
  /\ lastOp' = "save_dirty"
  /\ prevWritten' = lastWritten
  /\ lastWritten' = primary'
  /\ ckpts' = IF ckpts < 2 THEN ckpts + 1 ELSE ckpts
  /\ UNCHANGED <<link, super_root, bak, pre, loaded, killedIn, writing>>
  /\ UNCHANGED timerVars
  /\ UNCHANGED connVars
  /\ UNCHANGED regVars

\* lines 108-110, 116-118: os.remove of the backup raises; save_timer has no
\* handler, so callLater is not reached and the timer is not armed again
SaveRemoveRaises ==
  /\ link = "running"
  /\ timer = "armed"
  /\ save_pc = "idle"
  /\ nodes_changed
  /\ Exists(bak)
  /\ pre' = [primary |-> primary, bak |-> bak]
  /\ lastOp' = "save_failed"
  /\ timer' = "dead"
  /\ UNCHANGED <<link, super_root, nodes_changed, primary, bak, save_pc,
                 loaded, lastWritten, prevWritten, ckpts, killedIn, writing,
                 no_save_nodes, handles>>
  /\ UNCHANGED connVars
  /\ UNCHANGED regVars

\* lines 108-110, 119-125: os.rename, open, write, flush or fsync raises: the
\* files stay as they are, a file that was opened is not closed, the error
\* leaves save_timer before callLater
SaveRaises ==
  /\ save_pc \in {"l119", "l121", "l122", "l123"}
  /\ save_pc = "l119" => Exists(primary)
  /\ save_pc' = "idle"
  /\ lastOp' = "save_failed"
  /\ timer' = "dead"
  /\ handles' \in (IF save_pc \in {"l122", "l123"} THEN {handles, handles + 1}
                   ELSE {handles})
  /\ UNCHANGED <<link, super_root, nodes_changed, primary, bak, pre, loaded,
                 lastWritten, prevWritten, ckpts, killedIn, writing,
                 no_save_nodes>>
  /\ UNCHANGED connVars
  /\ UNCHANGED regVars

\* the process is killed: the memory is lost, the files stay
Kill ==
  /\ link = "running"
  /\ link' = "down"
  /\ killedIn' = save_pc
  /\ writing' = ToJson(super_root)
  /\ super_root' = DefaultNodes
  /\ nodes_changed' = FALSE
  /\ save_pc' = "idle"
  /\ lastOp' = "kill"
  /\ timer' = "off"
  /\ handles' = 0
  /\ UNCHANGED <<primary, bak, pre, loaded, lastWritten, prevWritten, ckpts,
                 no_save_nodes>>
  /\ UNCHANGED connVars
  /\ UNCHANGED regVars

NextStore ==
  \/ Start
  \/ \E d \in Data : Mutate(d)
  \/ SaveBegin
  \/ SaveRename
  \/ SaveOpen
  \/ SaveWritePart
  \/ SaveFinish
  \/ SaveRemoveRaises
  \/ SaveRaises
  \/ Kill


\* ------------------------------ LocalSubscriptionManager and StreamManager

Nodes == 1..MaxNodes
Ids == 1..MaxIds

\* a manager: its dict, the records on the nodes, and whether a call raised
Reg(m, r, x) == [map |-> m, recs |-> r, raised |-> x]

SubsReg == Reg(subscriptions, subscribers, FALSE)
StreamsReg == Reg(streams, node_streams, FALSE)

\* list.remove(x): the first occurrence is taken out
RECURSIVE RemoveFirst(_, _)
RemoveFirst(q, x) ==
  IF q = <<>> THEN <<>>
  ELSE IF Head(q) = x THEN Tail(q)
  ELSE <<Head(q)>> \o RemoveFirst(Tail(q), x)

InList(q, x) == \E k \in 1..Len(q) : q[k] = x
Count(q, x) == Cardinality({k \in 1..Len(q) : q[k] = x})

\* lines 220-227: subscribe(node, sid)
Subscribe(g, n, i) ==
  Reg([g.map EXCEPT ![i] = n],
      [g.recs EXCEPT ![n] = @ \cup {i}],
      g.raised)

\* lines 229-238: unsubscribe(sid); the KeyError of an unknown sid is caught
Unsubscribe(g, i) ==
  IF g.map[i] = 0
  THEN g
  ELSE Reg([g.map EXCEPT ![i] = 0],
           [g.recs EXCEPT ![g.map[i]] = @ \ {i}],
           g.raised)

\* an open_stream that only stores the mapping
OpenStreamMapOnly(g, n, i) ==
  Reg([g.map EXCEPT ![i] = n], g.recs, g.raised)

\* an open_stream that first takes the rid off the node it was mapped to
OpenStreamMoves(g, n, i) ==
  Reg([g.map EXCEPT ![i] = n],
      [m \in Nodes |->
         IF m = n THEN Append(IF g.map[i] = n THEN RemoveFirst(g.recs[m], i)
                              ELSE g.recs[m], i)
         ELSE IF m = g.map[i] THEN RemoveFirst(g.recs[m], i)
         ELSE g.recs[m]],
      g.raised)

\* lines 252-259: open_stream(node, rid)
OpenStream(g, n, i) ==
  Reg([g.map EXCEPT ![i] = n],
      [g.recs EXCEPT ![n] = Append(@, i)],
      g.raised)

\* a close_stream that only drops the mapping
CloseStreamKeepsRecord(g, i) ==
  IF g.map[i] = 0
  THEN g
  ELSE Reg([g.map EXCEPT ![i] = 0], g.recs, g.raised)

\* a close_stream with no handler for the KeyError
CloseStreamNoHandler(g, i) ==
  IF g.map[i] = 0
  THEN Reg(g.map, g.recs, TRUE)
  ELSE IF InList(g.recs[g.map[i]], i)
       THEN Reg([g.map EXCEPT ![i] = 0],
                [g.recs EXCEPT ![g.map[i]] = RemoveFirst(@, i)],
                g.raised)
       ELSE Reg(g.map, g.recs, TRUE)

\* lines 261-270: close_stream(rid); the KeyError of an unknown rid is caught,
\* the ValueError of list.remove is not
CloseStream(g, i) ==
  IF g.map[i] = 0
  THEN g
  ELSE IF InList(g.recs[g.map[i]], i)
       THEN Reg([g.map EXCEPT ![i] = 0],
                [g.recs EXCEPT ![g.map[i]] = RemoveFirst(@, i)],
                g.raised)
       ELSE Reg(g.map, g.recs, TRUE)

\* lines 214-218 and 246-250: both managers start empty
InitReg ==
  /\ manager \in {"subscriptions", "streams"}
  /\ subscriptions = [i \in Ids |-> 0]
  /\ subscribers = [n \in Nodes |-> {}]
  /\ streams = [i \in Ids |-> 0]
  /\ node_streams = [n \in Nodes |-> <<>>]
  /\ reg_raised = FALSE
  /\ lastReg = [op |-> "none", node |-> 0, id |-> 0, was |-> 0]
  /\ dup_opened = FALSE

RegAtRest == InitReg /\ manager = "subscriptions"

DoSubscribe(n, i) ==
  /\ manager = "subscriptions"
  /\ LET g == Subscribe(SubsReg, n, i) IN
       /\ subscriptions' = g.map
       /\ subscribers' = g.recs
       /\ reg_raised' = (reg_raised \/ g.raised)
  /\ lastReg' = [op |-> "subscribe", node |-> n, id |-> i, was |-> subscriptions[i]]
  /\ dup_opened' = (dup_opened \/ subscriptions[i] # 0)
  /\ UNCHANGED <<manager, streams, node_streams>>
  /\ UNCHANGED <<connVars, storeVars>>

DoUnsubscribe(i) ==
  /\ manager = "subscriptions"
  /\ LET g == Unsubscribe(SubsReg, i) IN
       /\ subscriptions' = g.map
       /\ subscribers' = g.recs
       /\ reg_raised' = (reg_raised \/ g.raised)
  /\ lastReg' = [op |-> "unsubscribe", node |-> 0, id |-> i, was |-> subscriptions[i]]
  /\ UNCHANGED <<manager, streams, node_streams, dup_opened>>
  /\ UNCHANGED <<connVars, storeVars>>

DoOpenStream(n, i) ==
  /\ manager = "streams"
  /\ Len(node_streams[n]) < MaxStreams
  /\ LET g == OpenStream(StreamsReg, n, i) IN
       /\ streams' = g.map
       /\ node_streams' = g.recs
       /\ reg_raised' = (reg_raised \/ g.raised)
  /\ lastReg' = [op |-> "open_stream", node |-> n, id |-> i, was |-> streams[i]]
  /\ dup_opened' = (dup_opened \/ streams[i] # 0)
  /\ UNCHANGED <<manager, subscriptions, subscribers>>
  /\ UNCHANGED <<connVars, storeVars>>

DoCloseStream(i) ==
  /\ manager = "streams"
  /\ LET g == CloseStream(StreamsReg, i) IN
       /\ streams' = g.map
       /\ node_streams' = g.recs
       /\ reg_raised' = (reg_raised \/ g.raised)
  /\ lastReg' = [op |-> "close_stream", node |-> 0, id |-> i, was |-> streams[i]]
  /\ UNCHANGED <<manager, subscriptions, subscribers, dup_opened>>
  /\ UNCHANGED <<connVars, storeVars>>

NextReg ==
  \/ \E n \in Nodes, i \in Ids : DoSubscribe(n, i)
  \/ \E i \in Ids : DoUnsubscribe(i)
  \/ \E n \in Nodes, i \in Ids : DoOpenStream(n, i)
  \/ \E i \in Ids : DoCloseStream(i)

Init == InitConn /\ InitStore /\ InitReg

Next == NextClose \/ NextStore \/ NextReg

Spec == Init /\ [][Next]_vars

\* the connection alone, the persistence state at rest on an empty disk; the
\* transport signals a close once, for a transport that was open
InitConnOnly == InitConn /\ StoreAtRest /\ RegAtRest

SpecConn == InitConnOnly /\ [][NextConn]_vars

\* the connection with a transport that may signal a close at any time
InitCloseOnly == InitConn /\ StoreAtRest /\ RegAtRest

SpecClose == InitCloseOnly /\ [][NextClose]_vars

\* the persistence alone, the connection not started
InitStoreOnly == InitStore /\ InitConn /\ RegAtRest

SpecStore == InitStoreOnly /\ [][NextStore]_vars

\* the two managers alone
InitRegOnly == InitReg /\ InitConn /\ StoreAtRest

SpecReg == InitRegOnly /\ [][NextReg]_vars

\* ------------------------------------------------- claims on Connection.py

\* C1: after N >= 1 consecutive failed attempts the delay slept before attempt
\* N+1 is min(N, 60) seconds, and the delay is 0 once an attempt succeeded.
BackoffMonotonic ==
  /\ (pc = "top" /\ fails >= 1) => slept = Min(fails, DelayCap)
  /\ pc = "connected" => delay = 0

\* C2: every failed attempt (false result or raised error, in the handshake or
\* in the transport connect) is followed by a sleep of the current reconnect
\* delay before the next attempt begins.
FailedAttemptSleeps ==
  (pc = "top" /\ fails >= 1) => (slept > 0 /\ slept = delay)

\* C3: connect() returns only from an attempt whose handshake and transport
\* connect both succeeded; when it has returned the keepalive task is started
\* and the reconnect delay is 0.
ConnectReturnsConnected ==
  pc = "connected" =>
    /\ hs_res = "true" /\ fresh
    /\ ws_res = "true"
    /\ ping_task # None
    /\ pings[ping_task] \in LivePing
    /\ delay = 0

ConnectReturned ==
  /\ pc = "connected"
  /\ ping_task = 2
  /\ pings[ping_task] = "created"

\* C4: on_close requests the cancellation before the reconnect loop starts,
\* and from then until the next successful transport connect no keepalive
\* task starts a new send.
Reconnecting == pc \in LoopPcs /\ ping_task # None

FreshHandshakeEveryAttempt ==
  /\ pc = "ws" => (fresh /\ hs_res = "true")
  /\ pc \in LoopPcs => websocket = "reset"

TransportConnectAfterClose ==
  /\ pc = "ws"
  /\ ping_task # None
  /\ fails >= 1

\* ----------------------------------------------------- claims on DSLink.py

JustLoaded == lastOp = "load"

\* C6: a load with a primary that does not parse and a backup that does
\* returns the tree stored in the backup; afterwards the primary holds the
\* former backup content and the backup path is gone.
LoadRestoresBackup ==
  (JustLoaded /\ Exists(pre.primary) /\ ~Parses(pre.primary) /\ Parses(pre.bak)) =>
    /\ link = "running"
    /\ loaded = FromJson(pre.bak.json)
    /\ primary = pre.bak
    /\ bak = Missing

RestoredFromBackup ==
  /\ JustLoaded
  /\ pre.primary.st = "partial"
  /\ Parses(pre.bak)
  /\ loaded.data # 0

CleanSaveIsNoOp ==
  /\ [][lastOp' = "save_clean" =>
          (primary' = primary /\ bak' = bak /\ save_pc' = "idle"
           /\ nodes_changed' = nodes_changed)]_vars
  /\ []((lastOp = "save_clean" /\ ckpts >= 1) =>
          (primary = lastWritten /\ primary = Valid(ToJson(super_root))
           /\ (Exists(pre.primary) => bak = pre.primary)))

CleanSaveAfterDirtySave ==
  /\ lastOp = "save_clean"
  /\ ckpts >= 1
  /\ Exists(bak)

\* C9: after a completed dirty checkpoint that started with a primary, the
\* backup holds what the primary held before it and the primary holds the
\* serialization of the tree; after two in a row the backup holds what the
\* primary held right after the first.
CheckpointRotates ==
  lastOp = "save_dirty" =>
    /\ primary = Valid(ToJson(super_root))
    /\ Exists(pre.primary) => bak = pre.primary
    /\ ckpts >= 2 => bak = prevWritten

TwoCheckpointsInARow ==
  /\ lastOp = "save_dirty"
  /\ ckpts >= 2
  /\ bak.st = "valid"
  /\ bak.json # primary.json

\* C10: a process killed inside save_nodes, once a checkpoint has completed,
\* loads on restart either the tree it was writing or the tree of the last
\* completed checkpoint.
KilledInSave == killedIn # "idle" /\ Exists(lastWritten)

CrashLosesOneGeneration ==
  (JustLoaded /\ KilledInSave) => ToJson(loaded) \in {writing, lastWritten.json}

\* C11: when save_nodes starts with a primary that parses, at every point
\* inside save_nodes the primary or the backup holds a complete serialization.
RotationKeepsGoodCopy ==
  (save_pc # "idle" /\ Parses(pre.primary)) => (Parses(primary) \/ Parses(bak))

PartialPrimaryBesideBackup ==
  /\ save_pc = "l123"
  /\ Parses(pre.primary)
  /\ primary.st = "partial"
  /\ Parses(bak)

\* C12: a save_nodes that fails part-way leaves the dirty flag set and the
\* checkpoint timer armed, so that a later tick calls save_nodes again.
FailedSaveIsRetried ==
  lastOp = "save_failed" => (nodes_changed /\ timer = "armed")

\* C17: when load_nodes or save_nodes has finished, normally or through an
\* error, none of the files it opened is still open.
HandlesReleased ==
  (link = "running" /\ save_pc = "idle") => handles = 0

\* C18: a clear dirty flag means the primary holds the serialization of the
\* tree in memory, once the tree came from disk or a checkpoint has completed.
TreeFromDisk ==
  Parses(pre.primary) \/ (Exists(pre.primary) /\ Parses(pre.bak))

CleanFlagMeansSaved ==
  (link = "running" /\ ~nodes_changed /\ (ckpts >= 1 \/ TreeFromDisk)) =>
    primary = Valid(ToJson(super_root))

CleanFlagAfterCheckpoint ==
  /\ link = "running"
  /\ ~nodes_changed
  /\ ckpts >= 1
  /\ super_root.data # 0
  /\ lastOp = "save_clean"

\* ----------------------- claims on LocalSubscriptionManager, StreamManager

\* C13 as stated: for an id that is not mapped, open on a node and then close
\* leave the node's record and the dict without the id, which is the state
\* from before the open.
RoundTripRestoresUnmapped ==
  \A n \in Nodes, i \in Ids :
    /\ subscriptions[i] = 0 =>
         LET a == Unsubscribe(Subscribe(SubsReg, n, i), i) IN
           i \notin a.recs[n] /\ a.map[i] = 0 /\ a = SubsReg
    /\ streams[i] = 0 =>
         LET a == CloseStream(OpenStream(StreamsReg, n, i), i) IN
           ~InList(a.recs[n], i) /\ a.map[i] = 0 /\ a = StreamsReg

\* C13 amended: the same for an id that is neither mapped nor still recorded
\* on the node from an open that was overwritten.
RoundTripRestores ==
  \A n \in Nodes, i \in Ids :
    /\ (subscriptions[i] = 0 /\ i \notin subscribers[n]) =>
         LET a == Unsubscribe(Subscribe(SubsReg, n, i), i) IN
           i \notin a.recs[n] /\ a.map[i] = 0 /\ a = SubsReg
    /\ (streams[i] = 0 /\ ~InList(node_streams[n], i)) =>
         LET a == CloseStream(OpenStream(StreamsReg, n, i), i) IN
           ~InList(a.recs[n], i) /\ a.map[i] = 0 /\ a = StreamsReg

RoundTripDone ==
  /\ lastReg.op = "close_stream"
  /\ lastReg.was # 0
  /\ ~dup_opened
  /\ \A n \in Nodes : ~InList(node_streams[n], lastReg.id)
  /\ \E n \in Nodes : node_streams[n] # <<>>

\* C14: a close of an id that is not mapped raises nothing and leaves the
\* dict and the record of every node as they are.
CloseUnknownIsNoOp ==
  /\ []~reg_raised
  /\ [][(lastReg'.op \in {"unsubscribe", "close_stream"} /\ lastReg'.was = 0) =>
          (/\ subscriptions' = subscriptions /\ subscribers' = subscribers
           /\ streams' = streams /\ node_streams' = node_streams)]_vars

UnknownClosedBesideStaleRecord ==
  /\ lastReg.op = "close_stream"
  /\ lastReg.was = 0
  /\ \E n \in Nodes : InList(node_streams[n], lastReg.id)

\* C15: an open on node B of an id mapped to another node A maps the id to B
\* and records it on B while A keeps it; the close that follows takes it off
\* B only and drops the mapping.
DuplicateOpenLastWriterWins ==
  \A n \in Nodes, i \in Ids :
    /\ (subscriptions[i] # 0 /\ subscriptions[i] # n) =>
         LET o == subscriptions[i]
             a == Subscribe(SubsReg, n, i)
             b == Unsubscribe(a, i)
         IN /\ a.map[i] = n /\ i \in a.recs[n] /\ i \in a.recs[o]
            /\ b.map[i] = 0 /\ i \notin b.recs[n] /\ i \in b.recs[o]
    /\ (streams[i] # 0 /\ streams[i] # n) =>
         LET o == streams[i]
             a == OpenStream(StreamsReg, n, i)
             b == CloseStream(a, i)
         IN /\ a.map[i] = n /\ InList(a.recs[n], i) /\ a.recs[o] = node_streams[o]
            /\ InList(a.recs[o], i)
            /\ b.map[i] = 0 /\ b.recs[o] = node_streams[o]
            /\ Count(b.recs[n], i) = Count(a.recs[n], i) - 1

ClosedAfterDuplicateOpen ==
  /\ lastReg.op = "close_stream"
  /\ lastReg.was # 0
  /\ streams[lastReg.id] = 0
  /\ \E n \in Nodes : n # lastReg.was /\ InList(node_streams[n], lastReg.id)

\* C20: as long as no open was called with a mapped id, an id is recorded on
\* a node (once, in a stream list) exactly when the dict maps it to that node;
\* in every state a mapped id is recorded on the node it is mapped to.
RegistryNodeAgreement ==
  /\ \A i \in Ids :
       /\ subscriptions[i] # 0 => i \in subscribers[subscriptions[i]]
       /\ streams[i] # 0 => InList(node_streams[streams[i]], i)
  /\ ~dup_opened =>
       \A n \in Nodes, i \in Ids :
         /\ i \in subscribers[n] <=> subscriptions[i] = n
         /\ Count(node_streams[n], i) = (IF streams[i] = n THEN 1 ELSE 0)

AgreementAfterOpensAndCloses ==
  /\ ~dup_opened
  /\ lastReg.op = "close_stream"
  /\ lastReg.was # 0
  /\ \E i \in Ids : streams[i] # 0

\* ------------------------------------ claims on close callbacks at any time

\* C16: no close callback raises out of on_close; each one enters the
\* reconnect loop that leads back to the connected state.
EveryCloseReconnects == ~close_raised

\* C19: at most one connect loop and at most one keepalive task that is not
\* canceled are live, and a keepalive task that is not canceled is the one
\* ping_task refers to.
LiveLoops ==
  (IF pc \in LoopPcs THEN 1 ELSE 0) + Cardinality({e \in Extras : extra[e] # "none"})

RunningPings == {t \in PingIds : pings[t] \in LivePing /\ ~must_cancel[t]}

SingleLoopSingleKeepalive ==
  /\ LiveLoops <= 1
  /\ Cardinality(RunningPings) <= 1
  /\ \A t \in RunningPings : t = ping_task

====
